---- MODULE Spec2Model ----
(***************************************************************************)
(* State-machine model of src/bot.py: the per-project monitoring loops     *)
(* (monitoring_loop), the change-detection cycle (check_page_changes) and  *)
(* the management handlers (handle_url, toggle_project, delete_project,    *)
(* delete_command, set_interval, interval_command, toggle_notifications).  *)
(*                                                                         *)
(* Concurrency model (asyncio, one event loop):                            *)
(*  - code between two awaits runs atomically; every action below is one   *)
(*    such stretch of code;                                                *)
(*  - update handlers are run one at a time by the dispatcher (runner 0);  *)
(*    monitoring tasks (runners 1..MaxTasks) interleave with it and with   *)
(*    each other at their awaits;                                          *)
(*  - Task.cancel() makes the task's next step raise CancelledError at the *)
(*    await where it is suspended; that step is queued before anything the *)
(*    cancelling handler does after its own next await.                    *)
(*                                                                         *)
(* Project objects are mutable and shared by reference: `objects` is the   *)
(* heap of Project instances, `user_projects` holds the references that    *)
(* are currently stored (an insertion-ordered dict per chat).              *)
(* The display name of a project has no effect on behaviour and is left    *)
(* out of the record.                                                      *)
(***************************************************************************)
EXTENDS Integers, Sequences, FiniteSets, TLC

\* ---------------------------------------------------------------- bounds
MaxProjects == 1
MaxTasks == 1
MaxTicks == 2

\* ------------------------------------------------------ program constants
DefaultIntervalMinutes == 60
NoChangeFloorSeconds == 3600
BackoffSeconds == 60

\* ------------------------------------------------------- model parameters
Quantum == 30 * 60
MaxTime == MaxTicks * Quantum
Chats == {1}
IntervalChoices == {30, 60}
Contents == {"X", "Y"}
FeedUrl == "/feed"
RssUrl == "/rss"

\* Optional[T]: None is the empty sequence, a value v is <<v>>.
None == <<>>
Some(v) == <<v>>
Truthy(o) == o # None

\* Message texts received by handle_url, as character sequences.
HttpsUrl == <<"h","t","t","p","s",":","/","/","a">>
HttpUrl == <<"h","t","t","p",":","/","/","a">>
UpperUrl == <<"H","T","T","P",":","/","/","a">>
FtpUrl == <<"f","t","p",":","/","/","a">>
PaddedUrl == <<" ","h","t","t","p","s",":","/","/","a"," ">>
Texts == {HttpsUrl, UpperUrl, FtpUrl, PaddedUrl}

startswith(text, prefix) ==
  /\ Len(text) >= Len(prefix)
  /\ SubSeq(text, 1, Len(prefix)) = prefix

\* str.strip() on the modelled texts: leading and trailing blanks removed.
RECURSIVE lstrip(_)
lstrip(text) ==
  IF text # << >> /\ Head(text) = " " THEN lstrip(Tail(text)) ELSE text

RECURSIVE rstrip(_)
rstrip(text) ==
  IF text # << >> /\ text[Len(text)] = " "
  THEN rstrip(SubSeq(text, 1, Len(text) - 1))
  ELSE text

strip(text) == rstrip(lstrip(text))

\* A check that accepts any scheme.
ValidUrlAnyScheme(text) ==
  \E i \in 1..Len(text) :
    i + 2 <= Len(text) /\ SubSeq(text, i, i + 2) = <<":","/","/">>

ValidUrl(text) ==
  \/ startswith(text, <<"h","t","t","p",":","/","/">>)
  \/ startswith(text, <<"h","t","t","p","s",":","/","/">>)

\* hashlib.md5(content.encode('utf-8')).hexdigest() on the modelled contents.
calculate_hash(content) ==
  CASE content = "X" -> "02129bb861061d1a052c592e2dc6b383"
    [] content = "Y" -> "57cec4137b614c87cb4e24a3d003a3e0"

\* datetime.isoformat() of an aware datetime and datetime.fromisoformat():
\* the stored value is a string wrapping the instant (seconds).
isoformat(t) == Some(t)
fromisoformat(s) == s[1]

Range(s) == {s[i] : i \in 1..Len(s)}

Put(f, k, v) == [x \in (DOMAIN f) \cup {k} |-> IF x = k THEN v ELSE f[x]]
Remove(f, k) == [x \in (DOMAIN f) \ {k} |-> f[x]]

Handler == 0
Tasks == 1..(MaxTasks + 1)
Runners == 0..(MaxTasks + 1)

VARIABLES
  user_projects,     \* chat_id -> sequence of project ids (ordered dict)
  objects,           \* project id -> Project instance
  monitoring_tasks,  \* <<chat_id, project_id>> -> task
  run,               \* runner -> coroutine position and locals
  now,               \* wall clock, seconds
  outbox,            \* the notification sent by the last step, if any
  deleted,           \* <<chat_id, project_id>> removed by a delete handler
  no_change_notices, \* project id -> cycle times of its 'no change' notices
  limits,            \* how many tasks may be alive, how many projects added
  scenario           \* scripted retrievals and the events they produce

vars == <<user_projects, objects, monitoring_tasks, run, now, outbox,
          deleted, no_change_notices, limits, scenario>>

NoMsg == [kind |-> "none", chat |-> 0, pid |-> 0, time |-> 0, item |-> ""]
Msg(k, c, p, t) ==
  [kind |-> k, chat |-> c, pid |-> p, time |-> t, item |-> ""]

\* The message about one new item of a feed (lines 596-605).
ItemMsg(c, p, t, id) == [Msg("FeedNewItem", c, p, t) EXCEPT !.item = id]

\* The kinds of message a cycle sends to the owner.
Notifications ==
  {"FetchFailed", "FirstObservation", "ContentChanged", "UnchangedNotice"}

\* The text a handler answers with when it refuses a request.
Reply(k, c) == Msg(k, c, 0, 0)

Idle == [pc |-> "idle", op |-> "none", chat |-> 0, pid |-> 0,
         current_time |-> 0, interval_seconds |-> 0, wake |-> 0,
         cancelled |-> FALSE, new_items |-> << >>]
NoTask == [Idle EXCEPT !.pc = "none"]

Project(project_id, url) ==
  [project_id |-> project_id,
   url |-> url,
   last_hash |-> None,
   last_check |-> None,
   interval_minutes |-> DefaultIntervalMinutes,
   is_active |-> TRUE,
   notify_on_no_changes |-> FALSE,
   last_notification |-> None,
   rss_url |-> None,
   last_rss_items |-> None]

\* No script: every retrieval returns whatever the environment chooses.
Unscripted ==
  [on |-> FALSE, script |-> << >>, feeds |-> << >>, events |-> << >>]

\* The retrievals of the end-to-end scenario: "X", "X", "Y" for project 1.
Scripted ==
  [on |-> TRUE, script |-> <<Some("X"), Some("X"), Some("Y")>>,
   feeds |-> << >>, events |-> << >>]

\* The feed scenario: the site of project 1 has a feed that is served first
\* with the entry a1, then with a3, a2, a1 (newest first); its page is "X".
ScriptedFeed ==
  [on |-> TRUE, script |-> <<Some("X"), Some("X")>>,
   feeds |-> <<Some(<<"a1">>), Some(<<"a3", "a2", "a1">>)>>,
   events |-> << >>]

InitWith(tasks, projects, scen) ==
  /\ limits = [tasks |-> tasks, projects |-> projects]
  /\ scenario = scen
  /\ user_projects = << >>
  /\ objects = << >>
  /\ monitoring_tasks = << >>
  /\ run = [r \in Runners |-> IF r = Handler THEN Idle ELSE NoTask]
  /\ now = 0
  /\ outbox = NoMsg
  /\ deleted = {}
  /\ no_change_notices = << >>

Init == InitWith(MaxTasks, MaxProjects, Unscripted)

\* The same program with room for one more task: a loop that outlives its
\* cancellation next to the loop that replaces it.
InitWide == InitWith(MaxTasks + 1, MaxProjects, Unscripted)

InitE2E == InitWith(MaxTasks, MaxProjects, Scripted)

InStoreAnyOwner(c, p) ==
  \E d \in DOMAIN user_projects : p \in Range(user_projects[d])

\* ------------------------------------------------------------ store helpers
InStore(c, p) == c \in DOMAIN user_projects /\ p \in Range(user_projects[c])

\* user_projects[chat_id][project_id] = project
StoreSet(up, c, p) ==
  [up EXCEPT ![c] = IF p \in Range(@) THEN @ ELSE Append(@, p)]

StoreDelAll(up, c, p) == [up EXCEPT ![c] = << >>]

\* del user_projects[chat_id][project_id]
StoreDel(up, c, p) ==
  [up EXCEPT ![c] = SelectSeq(@, LAMBDA q : q # p)]

HandlerIdle == run[Handler].pc = "idle"

\* A handler's trailing awaits (answer, edit_message_text, menus): nothing
\* more is written after them.
Replying == [Idle EXCEPT !.pc = "reply"]

Slots == 1..limits.tasks
HasFreeTask == \E t \in Slots : run[t].pc = "none"
FreeTask ==
  CHOOSE t \in Slots :
    run[t].pc = "none" /\ \A u \in Slots : run[u].pc = "none" => t <= u

\* asyncio.create_task(monitoring_loop(chat_id, project, ...))
NewTask(c, p) ==
  [Idle EXCEPT !.pc = "new", !.op = "loop", !.chat = c, !.pid = p]


\* Steps queued with call_soon (a new task's first step, a cancelled task's
\* CancelledError) run before a coroutine that is waiting for I/O resumes.
PendingSoon == \E t \in Tasks : run[t].pc = "new" \/ run[t].cancelled

\* check_page_changes up to its first await: current_time is taken, then
\* fetch_rss_content (rss_url known) or find_rss_feed is awaited.
BeginCycle(rec, p) ==
  [rec EXCEPT !.current_time = now,
              !.pc = IF Truthy(objects[p].rss_url) THEN "fetch_rss"
                     ELSE "find"]

\* ------------------------------------------------------ management handlers

\* start: creates the chat's dict, then replies.
start(c) ==
  /\ HandlerIdle
  /\ user_projects' = IF c \in DOMAIN user_projects THEN user_projects
                      ELSE Put(user_projects, c, << >>)
  /\ run' = [run EXCEPT ![Handler] = Replying]
  /\ outbox' = NoMsg
  /\ UNCHANGED <<objects, monitoring_tasks, now, deleted, no_change_notices,
                 limits, scenario>>

\* handle_url up to `await update.message.reply_text` (line 1094).
handle_url(c, message) ==
  /\ HandlerIdle
  /\ LET text == strip(message) IN
     IF ~ValidUrl(text)
     THEN /\ run' = [run EXCEPT ![Handler] = Replying]
          /\ outbox' = Reply("InvalidLocator", c)
          /\ UNCHANGED <<user_projects, objects, no_change_notices>>
     ELSE /\ Len(objects) < limits.projects
          /\ HasFreeTask
          /\ LET project_id == Len(objects) + 1
                 up == IF c \in DOMAIN user_projects THEN user_projects
                       ELSE Put(user_projects, c, << >>)
             IN /\ objects' = Append(objects, Project(project_id, text))
                /\ user_projects' = StoreSet(up, c, project_id)
                /\ no_change_notices' = Append(no_change_notices, << >>)
                /\ run' = [run EXCEPT ![Handler] =
                             [Idle EXCEPT !.pc = "url_reply",
                                          !.op = "handle_url",
                                          !.chat = c, !.pid = project_id]]
                /\ outbox' = NoMsg
  /\ UNCHANGED <<monitoring_tasks, now, deleted, limits, scenario>>

\* handle_url from the return of reply_text: create_task, register it and
\* run the immediate first check up to its first await (lines 1102-1107).
\* ok = FALSE: reply_text raised and the handler ends there.
handle_url_resume(ok) ==
  /\ run[Handler].pc = "url_reply"
  /\ ~PendingSoon
  /\ LET c == run[Handler].chat
         p == run[Handler].pid
         t == FreeTask
     IN IF ok
        THEN /\ monitoring_tasks' = Put(monitoring_tasks, <<c, p>>, t)
             /\ run' = [run EXCEPT ![t] = NewTask(c, p),
                                   ![Handler] = BeginCycle(@, p)]
        ELSE /\ run' = [run EXCEPT ![Handler] = Idle]
             /\ UNCHANGED monitoring_tasks
  /\ outbox' = NoMsg
  /\ UNCHANGED <<user_projects, objects, now, deleted, no_change_notices,
                 limits, scenario>>

\* The cancel-and-unregister block shared by delete_project, delete_command
\* and the deactivating branch of toggle_project.
CancelTask(rn, mt, key) ==
  IF key \in DOMAIN mt THEN [rn EXCEPT ![mt[key]].cancelled = TRUE] ELSE rn
Unregister(mt, key) ==
  IF key \in DOMAIN mt THEN Remove(mt, key) ELSE mt

\* toggle_project.  Activating: is_active is set (line 1021), then the task
\* is created from `query.bot` (line 1026) and registered.  ok = FALSE: the
\* attribute access on the library's CallbackQuery raises and the handler
\* ends there, after line 1021, in the dispatcher's error handling.
toggle_project(c, p, ok) ==
  /\ HandlerIdle
  /\ IF ~InStore(c, p)
     THEN /\ ok
          /\ run' = [run EXCEPT ![Handler] = Replying]
          /\ UNCHANGED <<objects, monitoring_tasks>>
     ELSE /\ objects' = [objects EXCEPT ![p].is_active = ~@]
          /\ IF objects'[p].is_active
             THEN IF ok
                  THEN /\ HasFreeTask
                       /\ monitoring_tasks' =
                            Put(monitoring_tasks, <<c, p>>, FreeTask)
                       /\ run' = [run EXCEPT
                            ![FreeTask] = NewTask(c, p),
                            ![Handler] = Replying]
                  ELSE /\ run' = [run EXCEPT ![Handler] = Replying]
                       /\ UNCHANGED monitoring_tasks
             ELSE /\ ok
                  /\ monitoring_tasks' = Unregister(monitoring_tasks, <<c, p>>)
                  /\ run' = [CancelTask(run, monitoring_tasks, <<c, p>>)
                       EXCEPT ![Handler] = Replying]
  /\ outbox' = IF ~InStore(c, p) THEN Reply("ProjectNotFound", c) ELSE NoMsg
  /\ UNCHANGED <<user_projects, now, deleted, no_change_notices, limits,
                 scenario>>

delete_project(c, p) ==
  /\ HandlerIdle
  /\ IF ~InStore(c, p)
     THEN /\ run' = [run EXCEPT ![Handler] = Replying]
          /\ UNCHANGED <<user_projects, monitoring_tasks, deleted>>
     ELSE /\ monitoring_tasks' = Unregister(monitoring_tasks, <<c, p>>)
          /\ user_projects' = StoreDel(user_projects, c, p)
          /\ deleted' = deleted \cup {<<c, p>>}
          /\ run' = [CancelTask(run, monitoring_tasks, <<c, p>>)
                       EXCEPT ![Handler] = Replying]
  /\ outbox' = IF ~InStore(c, p) THEN Reply("ProjectNotFound", c) ELSE NoMsg
  /\ UNCHANGED <<objects, now, no_change_notices, limits, scenario>>

\* /delete <project_num>
delete_command(c, project_num) ==
  /\ HandlerIdle
  /\ IF c \notin DOMAIN user_projects \/ user_projects[c] = << >>
     THEN /\ run' = [run EXCEPT ![Handler] = Replying]
          /\ UNCHANGED <<user_projects, monitoring_tasks, deleted>>
     ELSE LET projects_list == user_projects[c] IN
          IF project_num < 1 \/ project_num > Len(projects_list)
          THEN /\ run' = [run EXCEPT ![Handler] = Replying]
               /\ UNCHANGED <<user_projects, monitoring_tasks, deleted>>
          ELSE LET p == projects_list[project_num] IN
               /\ monitoring_tasks' = Unregister(monitoring_tasks, <<c, p>>)
               /\ user_projects' = StoreDel(user_projects, c, p)
               /\ deleted' = deleted \cup {<<c, p>>}
               /\ run' = [CancelTask(run, monitoring_tasks, <<c, p>>)
                            EXCEPT ![Handler] = Replying]
  /\ outbox' =
       IF c \notin DOMAIN user_projects \/ user_projects[c] = << >>
       THEN Reply("NoProjects", c)
       ELSE IF project_num < 1 \/ project_num > Len(user_projects[c])
       THEN Reply("ProjectNotFound", c)
       ELSE NoMsg
  /\ UNCHANGED <<objects, now, no_change_notices, limits, scenario>>

set_interval(c, p, minutes) ==
  /\ HandlerIdle
  /\ IF ~InStore(c, p)
     THEN /\ run' = [run EXCEPT ![Handler] = Replying]
          /\ UNCHANGED objects
     ELSE /\ objects' = [objects EXCEPT ![p].interval_minutes = minutes]
          /\ run' = [run EXCEPT ![Handler] = Replying]
  /\ outbox' = IF ~InStore(c, p) THEN Reply("ProjectNotFound", c) ELSE NoMsg
  /\ UNCHANGED <<user_projects, monitoring_tasks, now, deleted,
                 no_change_notices, limits, scenario>>

\* /interval <project_num> <minutes>
interval_command(c, project_num, minutes) ==
  /\ HandlerIdle
  /\ IF c \notin DOMAIN user_projects \/ user_projects[c] = << >>
     THEN /\ run' = [run EXCEPT ![Handler] = Replying]
          /\ UNCHANGED objects
     ELSE IF minutes < 1
     THEN /\ run' = [run EXCEPT ![Handler] = Replying]
          /\ UNCHANGED objects
     ELSE LET projects_list == user_projects[c] IN
          IF project_num < 1 \/ project_num > Len(projects_list)
          THEN /\ run' = [run EXCEPT ![Handler] = Replying]
               /\ UNCHANGED objects
          ELSE LET p == projects_list[project_num] IN
               /\ objects' = [objects EXCEPT ![p].interval_minutes = minutes]
               /\ run' = [run EXCEPT
                            ![Handler] = Replying]
  /\ outbox' =
       IF c \notin DOMAIN user_projects \/ user_projects[c] = << >>
       THEN Reply("NoProjects", c)
       ELSE IF minutes < 1
       THEN Reply("InvalidInterval", c)
       ELSE IF project_num < 1 \/ project_num > Len(user_projects[c])
       THEN Reply("ProjectNotFound", c)
       ELSE NoMsg
  /\ UNCHANGED <<user_projects, monitoring_tasks, now, deleted,
                 no_change_notices, limits, scenario>>

toggle_notifications(c, p) ==
  /\ HandlerIdle
  /\ IF ~InStore(c, p)
     THEN /\ run' = [run EXCEPT ![Handler] = Replying]
          /\ UNCHANGED objects
     ELSE /\ objects' = [objects EXCEPT ![p].notify_on_no_changes = ~@]
          /\ run' = [run EXCEPT ![Handler] = Replying]
  /\ outbox' = IF ~InStore(c, p) THEN Reply("ProjectNotFound", c) ELSE NoMsg
  /\ UNCHANGED <<user_projects, monitoring_tasks, now, deleted,
                 no_change_notices, limits, scenario>>

\* The handler's last await returns (or raises): the handler is over.
HandlerReturn ==
  /\ run[Handler].pc = "reply"
  /\ ~PendingSoon
  /\ run' = [run EXCEPT ![Handler] = Idle]
  /\ outbox' = NoMsg
  /\ UNCHANGED <<user_projects, objects, monitoring_tasks, now, deleted,
                 no_change_notices, limits, scenario>>


\* ------------------------------------------------------------ the cycle

\* A scheduler that measures the interval from the start of the cycle
\* (fixed-rate instead of fixed-delay).
AfterCycleFromStart(rec) ==
  IF rec.op = "loop"
  THEN [rec EXCEPT !.pc = "sleep",
                   !.wake = rec.current_time + rec.interval_seconds,
                   !.current_time = 0, !.interval_seconds = 0]
  ELSE Replying

\* check_page_changes has returned to its caller: monitoring_loop goes on to
\* `await asyncio.sleep(interval_seconds)`, handle_url to the menu.
AfterCycle(rec) ==
  IF rec.op = "loop"
  THEN [rec EXCEPT !.pc = "sleep", !.wake = now + rec.interval_seconds,
                   !.current_time = 0, !.interval_seconds = 0]
  ELSE Replying

CanStep(r) == ~run[r].cancelled /\ (r = Handler => ~PendingSoon)

\* What find_rss_feed can return.  Only the probing of the standard paths
\* (lines 244-267) can return a url: the search of the page's links (lines
\* 269-294) uses the name `re`, which the module never imports, and the
\* NameError is swallowed by `except: pass`.
ProbeResults == {None, Some(FeedUrl), Some(RssUrl)}

\* find_rss_feed returns: lines 553-556 with a url, else the cycle goes on
\* to `await fetch_page_content(project.url)` (line 651).
find_rss_feed(r, rss_url) ==
  /\ run[r].pc = "find"
  /\ CanStep(r)
  /\ LET c == run[r].chat
         p == run[r].pid
     IN IF Truthy(rss_url)
        THEN /\ objects' = [objects EXCEPT ![p].rss_url = rss_url]
             /\ user_projects' = StoreSet(user_projects, c, p)
             /\ run' = [run EXCEPT ![r].pc = "fetch_rss"]
        ELSE /\ run' = [run EXCEPT ![r].pc = "fetch_page"]
             /\ UNCHANGED <<objects, user_projects>>
  /\ outbox' = NoMsg
  /\ UNCHANGED <<monitoring_tasks, now, deleted, no_change_notices,
                 limits, scenario>>

\* A feed as its server answers: None when it cannot be retrieved, else the
\* ids of its entries, newest first.
ServedFeeds == {None, Some(<<"a1">>), Some(<<"a2", "a1">>)}

\* parse_rss (lines 306-309): the body is `feedparser.parse(url)` and the
\* module never imports the name `feedparser`: the call raises NameError for
\* every url, whatever the server answers.
parse_rss(served) == [raised |-> TRUE, entries |-> << >>]

\* What fetch_rss_content returns: None when parse_rss raised (`except
\* Exception`, lines 336-338) or when the feed could not be read (lines
\* 333-335), else the ids of the first ten entries (lines 311-332).
rss_data(served) ==
  LET feed == parse_rss(served) IN
    IF feed.raised \/ served = None THEN None
    ELSE Some(SubSeq(feed.entries, 1,
                     IF Len(feed.entries) < 10 THEN Len(feed.entries)
                     ELSE 10))

RECURSIVE reversed(_)
reversed(s) == IF s = << >> THEN << >> ELSE Append(reversed(Tail(s)), Head(s))

\* The scenario scripts the retrievals of the first project only.
FollowsScript(p) == scenario.on /\ p = 1

\* What the scenario has seen sent: the kind of each message, and for the
\* message about a new feed item the item's id.
Seen(events, msg) ==
  IF msg.kind = "none" THEN events
  ELSE Append(events, IF msg.kind = "FeedNewItem" THEN msg.item ELSE msg.kind)

\* A cycle that ends when its feed cannot be used.
AfterFeedFailureStop(rec) == AfterCycle(rec)

\* The cycle after a feed that could not be used: `if rss_data and
\* rss_data.get('items')` (line 559) is false and control reaches
\* `content = await fetch_page_content(project.url)` (line 651).
AfterFeedFailure(rec) == [rec EXCEPT !.pc = "fetch_page"]

\* A throttle that ignores notify_on_no_changes.
should_notify_always(project, current_time) ==
  IF Truthy(project.last_notification)
  THEN current_time - fromisoformat(project.last_notification)
         >= NoChangeFloorSeconds
  ELSE TRUE

\* A 'no change' notification without the hourly floor.
should_notify_no_floor(project, current_time) ==
  project.notify_on_no_changes

\* A throttle that needs more than an hour to have passed.
should_notify_strict(project, current_time) ==
  /\ project.notify_on_no_changes
  /\ IF Truthy(project.last_notification)
     THEN current_time - fromisoformat(project.last_notification)
            > NoChangeFloorSeconds
     ELSE TRUE

\* Lines 718-735: the throttle of the 'no change' notification.
should_notify(project, current_time) ==
  /\ project.notify_on_no_changes
  /\ IF Truthy(project.last_notification)
     THEN current_time - fromisoformat(project.last_notification)
            >= NoChangeFloorSeconds
     ELSE TRUE

\* A detector that compares digests before it looks for a missing baseline.
OutcomeHashFirst(project, content) ==
  IF content = None THEN "fetch-failed"
  ELSE IF Some(calculate_hash(content[1])) # project.last_hash THEN "changed"
  ELSE IF project.last_hash = None THEN "first-observation"
  ELSE "unchanged"

\* A detector with the digest comparison inverted.
OutcomeInverted(project, content) ==
  IF content = None THEN "fetch-failed"
  ELSE IF project.last_hash = None THEN "first-observation"
  ELSE IF Some(calculate_hash(content[1])) = project.last_hash THEN "changed"
  ELSE "unchanged"

\* A detector that treats a failed retrieval as 'nothing new'.
OutcomeQuietFailure(project, content) ==
  IF content = None THEN "unchanged"
  ELSE IF project.last_hash = None THEN "first-observation"
  ELSE IF Some(calculate_hash(content[1])) # project.last_hash THEN "changed"
  ELSE "unchanged"

\* A detector that announces a first observation whenever the digest is new.
OutcomeFirstAgain(project, content) ==
  IF content = None THEN "fetch-failed"
  ELSE IF project.last_hash = None THEN "first-observation"
  ELSE IF Some(calculate_hash(content[1])) # project.last_hash
  THEN "first-observation"
  ELSE "unchanged"

\* Lines 653, 675, 694, 712: which branch of the raw-content check is taken.
Outcome(project, content) ==
  IF content = None THEN "fetch-failed"
  ELSE IF project.last_hash = None THEN "first-observation"
  ELSE IF Some(calculate_hash(content[1])) # project.last_hash THEN "changed"
  ELSE "unchanged"

\* check_page_changes from the return of fetch_rss_content (lines 549, 556)
\* through the feed branch (lines 559-648) to its next await, or, the feed
\* being unusable, on to the raw fetch of line 651.
fetch_rss_content(r, served) ==
  /\ run[r].pc = "fetch_rss"
  /\ CanStep(r)
  /\ FollowsScript(run[r].pid) =>
       scenario.feeds # << >> /\ served = Head(scenario.feeds)
  /\ LET c == run[r].chat
         p == run[r].pid
         project == objects[p]
         current_time == run[r].current_time
         data == rss_data(served)
         checked == [project EXCEPT !.last_check = isoformat(current_time)]
     IN IF Truthy(data) /\ data[1] # << >>
        THEN LET items == data[1]
                 new_items ==
                   IF project.last_rss_items = None THEN << >>
                   ELSE SelectSeq(items, LAMBDA id :
                          id \notin Range(project.last_rss_items[1]))
             IN /\ user_projects' = StoreSet(user_projects, c, p)
                /\ CASE project.last_rss_items = None ->
                          /\ objects' = [objects EXCEPT ![p] =
                               [checked EXCEPT !.last_rss_items = Some(items)]]
                          /\ outbox' = Msg("FeedStarted", c, p, current_time)
                          /\ run' = [run EXCEPT ![r].pc = "send"]
                          /\ UNCHANGED no_change_notices
                     [] project.last_rss_items # None
                          /\ new_items # << >> ->
                          /\ objects' = [objects EXCEPT ![p] =
                               [checked EXCEPT !.last_rss_items = Some(items)]]
                          /\ outbox' = ItemMsg(c, p, current_time,
                                               Head(reversed(new_items)))
                          /\ run' = [run EXCEPT
                               ![r].pc = "send",
                               ![r].new_items = Tail(reversed(new_items))]
                          /\ UNCHANGED no_change_notices
                     [] OTHER ->
                          IF should_notify(checked, current_time)
                          THEN /\ objects' = [objects EXCEPT ![p] =
                                    [checked EXCEPT !.last_notification =
                                                      isoformat(current_time)]]
                               /\ outbox' = Msg("FeedUnchangedNotice", c, p,
                                                current_time)
                               /\ no_change_notices' =
                                    [no_change_notices EXCEPT
                                       ![p] = Append(@, current_time)]
                               /\ run' = [run EXCEPT ![r].pc = "send"]
                          ELSE /\ objects' = [objects EXCEPT ![p] = checked]
                               /\ outbox' = NoMsg
                               /\ run' = [run EXCEPT ![r] = AfterCycle(@)]
                               /\ UNCHANGED no_change_notices
        ELSE /\ run' = [run EXCEPT ![r] = AfterFeedFailure(@)]
             /\ outbox' = NoMsg
             /\ UNCHANGED <<user_projects, objects, no_change_notices>>
  /\ scenario' =
       IF FollowsScript(run[r].pid)
       THEN [scenario EXCEPT !.feeds = Tail(@),
                             !.events = Seen(@, outbox')]
       ELSE scenario
  /\ UNCHANGED <<monitoring_tasks, now, deleted, limits>>

\* A failed retrieval that discards the baseline.
FetchFailedForgets(project, current_time) ==
  [project EXCEPT !.last_check = isoformat(current_time),
                  !.last_hash = None]

\* A failed retrieval that counts as a notice to the owner.
FetchFailedStamps(project, current_time) ==
  [project EXCEPT !.last_check = isoformat(current_time),
                  !.last_notification = isoformat(current_time)]

\* Lines 653-656: the record after a retrieval that returned None.
FetchFailed(project, current_time) ==
  [project EXCEPT !.last_check = isoformat(current_time)]

PageResults == {None} \cup {Some(x) : x \in Contents}

\* check_page_changes from the return of fetch_page_content (line 651) to
\* the next await (send_message) or to the end of the function.
check_page_changes(r, content) ==
  /\ run[r].pc = "fetch_page"
  /\ CanStep(r)
  /\ FollowsScript(run[r].pid) =>
       scenario.script # << >> /\ content = Head(scenario.script)
  /\ LET c == run[r].chat
         p == run[r].pid
         project == objects[p]
         current_time == run[r].current_time
         out == Outcome(project, content)
         checked == [project EXCEPT !.last_check = isoformat(current_time)]
     IN /\ user_projects' = StoreSet(user_projects, c, p)
        /\ CASE out = "fetch-failed" ->
                  /\ objects' = [objects EXCEPT ![p] =
                       FetchFailed(project, current_time)]
                  /\ outbox' = Msg("FetchFailed", c, p, current_time)
                  /\ run' = [run EXCEPT ![r].pc = "send"]
                  /\ UNCHANGED no_change_notices
             [] out \in {"first-observation", "changed"} ->
                  /\ objects' = [objects EXCEPT ![p] =
                       [checked EXCEPT
                          !.last_hash = Some(calculate_hash(content[1]))]]
                  /\ outbox' = Msg(IF out = "changed" THEN "ContentChanged"
                                   ELSE "FirstObservation", c, p, current_time)
                  /\ run' = [run EXCEPT ![r].pc = "send"]
                  /\ UNCHANGED no_change_notices
             [] out = "unchanged" ->
                  IF should_notify(checked, current_time)
                  THEN /\ objects' = [objects EXCEPT ![p] =
                            [checked EXCEPT !.last_notification =
                                              isoformat(current_time)]]
                       /\ outbox' = Msg("UnchangedNotice", c, p, current_time)
                       /\ no_change_notices' =
                            [no_change_notices EXCEPT
                               ![p] = Append(@, current_time)]
                       /\ run' = [run EXCEPT ![r].pc = "send"]
                  ELSE /\ objects' = [objects EXCEPT ![p] = checked]
                       /\ outbox' = NoMsg
                       /\ run' = [run EXCEPT ![r] = AfterCycle(@)]
                       /\ UNCHANGED no_change_notices
  /\ scenario' =
       IF FollowsScript(run[r].pid)
       THEN [scenario EXCEPT !.script = Tail(@),
                             !.events = Seen(@, outbox')]
       ELSE scenario
  /\ UNCHANGED <<monitoring_tasks, now, deleted, limits>>

\* `except Exception` in monitoring_loop (lines 782-784): the error is
\* logged and the task awaits asyncio.sleep(60) inside the while loop.
BackoffExit(rec) == NoTask
Backoff(rec) ==
  [rec EXCEPT !.pc = "backoff", !.wake = now + BackoffSeconds,
              !.current_time = 0, !.interval_seconds = 0,
              !.new_items = << >>]

\* `await context.bot.send_message(...)` returns (ok) or raises.  In
\* monitoring_loop the exception is caught (line 782) and the loop awaits
\* asyncio.sleep(60); in handle_url it ends the handler.
send_message(r, ok) ==
  /\ run[r].pc = "send"
  /\ CanStep(r)
  /\ IF ok /\ run[r].new_items # << >>
     THEN \* `for new_item in reversed(new_items)`: the next message
          /\ run' = [run EXCEPT ![r].new_items = Tail(@)]
          /\ outbox' = ItemMsg(run[r].chat, run[r].pid, run[r].current_time,
                               Head(run[r].new_items))
     ELSE /\ run' = [run EXCEPT ![r] =
               IF ok THEN AfterCycle(@)
               ELSE IF @.op = "loop" THEN Backoff(@) ELSE Idle]
          /\ outbox' = NoMsg
  /\ scenario' =
       IF FollowsScript(run[r].pid)
       THEN [scenario EXCEPT !.events = Seen(@, outbox')]
       ELSE scenario
  /\ UNCHANGED <<user_projects, objects, monitoring_tasks, now, deleted,
                 no_change_notices, limits>>

\* ------------------------------------------------------------ the loop

\* A loop that keeps the interval of the Project it was created with.
IntervalSecondsCaptured(current_project) == DefaultIntervalMinutes * 60

\* Line 768: the interval is read from the stored record at the top of
\* every iteration.
IntervalSeconds(current_project) == current_project.interval_minutes * 60

\* Lines 762-764.
LoopCondition(c, p) == InStore(c, p) /\ objects[p].is_active

\* monitoring_loop: the task's first step, or the return of one of its
\* sleeps: the while condition, then either the top of the next iteration
\* (lines 767-771) or the exit and lines 786-788.
monitoring_loop(t) ==
  /\ \/ run[t].pc = "new"
     \/ run[t].pc \in {"sleep", "backoff"} /\ now >= run[t].wake
  /\ ~run[t].cancelled
  /\ LET c == run[t].chat
         p == run[t].pid
     IN IF LoopCondition(c, p)
        THEN /\ run' = [run EXCEPT ![t] =
                  BeginCycle([@ EXCEPT !.interval_seconds =
                                 IntervalSeconds(objects[p])], p)]
             /\ UNCHANGED monitoring_tasks
        ELSE /\ run' = [run EXCEPT ![t] = NoTask]
             /\ monitoring_tasks' = Unregister(monitoring_tasks, <<c, p>>)
  /\ outbox' = NoMsg
  /\ UNCHANGED <<user_projects, objects, now, deleted, no_change_notices,
                 limits, scenario>>

\* The cancelled task's next step: CancelledError is raised at its await.
\*  - in find_rss_feed, at `await fetch_page_content(base_url)` (in_html),
\*    the bare `except: pass` (line 293) swallows it: find_rss_feed returns
\*    None and the cycle goes on to line 651 as if nothing had happened;
\*    during the probing of lines 244-267 (`except Exception`) it propagates;
\*  - in `await asyncio.sleep(60)` (line 784, inside an except clause) it
\*    leaves the coroutine without running lines 786-788;
\*  - anywhere else it reaches `except asyncio.CancelledError: break` and
\*    lines 786-788 run.
CancelledError(t, in_html) ==
  /\ run[t].cancelled
  /\ in_html => run[t].pc = "find"
  /\ LET c == run[t].chat
         p == run[t].pid
     IN CASE in_html ->
               /\ run' = [run EXCEPT ![t].cancelled = FALSE,
                                     ![t].pc = "fetch_page"]
               /\ UNCHANGED monitoring_tasks
          [] ~in_html /\ run[t].pc = "backoff" ->
               /\ run' = [run EXCEPT ![t] = NoTask]
               /\ UNCHANGED monitoring_tasks
          [] OTHER ->
               /\ run' = [run EXCEPT ![t] = NoTask]
               /\ monitoring_tasks' = Unregister(monitoring_tasks, <<c, p>>)
  /\ outbox' = NoMsg
  /\ UNCHANGED <<user_projects, objects, now, deleted, no_change_notices,
                 limits, scenario>>

\* ------------------------------------------------------------ the clock

\* Time passes, one quantum at a time; a timer that is due fires at the next
\* instant the model observes (guard now >= wake in monitoring_loop).
Tick ==
  /\ now + Quantum <= MaxTime
  /\ now' = now + Quantum
  /\ outbox' = NoMsg
  /\ UNCHANGED <<user_projects, objects, monitoring_tasks, run, deleted,
                 no_change_notices, limits, scenario>>

Pids == 1..MaxProjects

Next ==
  \/ \E c \in Chats : start(c)
  \/ \E c \in Chats, message \in Texts : handle_url(c, message)
  \/ \E ok \in BOOLEAN : handle_url_resume(ok)
  \/ \E c \in Chats, p \in Pids, ok \in BOOLEAN : toggle_project(c, p, ok)
  \/ \E c \in Chats, p \in Pids : delete_project(c, p)
  \/ \E c \in Chats, n \in 0..MaxProjects : delete_command(c, n)
  \/ \E c \in Chats, p \in Pids, m \in IntervalChoices : set_interval(c, p, m)
  \/ \E c \in Chats, n \in 0..MaxProjects, m \in IntervalChoices \cup {0} :
       interval_command(c, n, m)
  \/ \E c \in Chats, p \in Pids : toggle_notifications(c, p)
  \/ HandlerReturn
  \/ \E r \in Runners, u \in ProbeResults : find_rss_feed(r, u)
  \/ \E r \in Runners, f \in ServedFeeds : fetch_rss_content(r, f)
  \/ \E r \in Runners, content \in PageResults : check_page_changes(r, content)
  \/ \E r \in Runners, ok \in BOOLEAN : send_message(r, ok)
  \/ \E t \in Tasks : monitoring_loop(t)
  \/ \E t \in Tasks, in_html \in BOOLEAN : CancelledError(t, in_html)
  \/ Tick

Spec == Init /\ [][Next]_vars

\* Adding, pausing, resuming and deleting projects while their loops run,
\* with no feed discovered and every send succeeding.
NextLifecycle ==
  \/ \E c \in Chats, message \in Texts : handle_url(c, message)
  \/ handle_url_resume(TRUE)
  \/ \E c \in Chats, p \in Pids : toggle_project(c, p, TRUE)
  \/ \E c \in Chats, p \in Pids : delete_project(c, p)
  \/ HandlerReturn
  \/ \E r \in Runners : find_rss_feed(r, None)
  \/ \E r \in Runners, content \in PageResults : check_page_changes(r, content)
  \/ \E r \in Runners : send_message(r, TRUE)
  \/ \E t \in Tasks : monitoring_loop(t)
  \/ \E t \in Tasks, in_html \in BOOLEAN : CancelledError(t, in_html)
  \/ Tick

SpecWide == InitWide /\ [][NextLifecycle]_vars


\* The end-to-end scenario: one owner adds a project, no feed is found,
\* every send succeeds, and the page returns the scripted contents.
NextE2E ==
  \/ \E c \in Chats : handle_url(c, HttpsUrl)
  \/ handle_url_resume(TRUE)
  \/ HandlerReturn
  \/ \E r \in Runners : find_rss_feed(r, None)
  \/ \E r \in Runners, content \in PageResults : check_page_changes(r, content)
  \/ \E r \in Runners : send_message(r, TRUE)
  \/ \E t \in Tasks : monitoring_loop(t)
  \/ Tick

SpecE2E == InitE2E /\ [][NextE2E]_vars

\* ------------------------------------------------------------ properties

\* The interval handlers with any integer a client can send: the callback
\* data `interval_<id>_<minutes>` is parsed with int() (line 900) and the
\* argument of /interval with int() (line 1187).
IntervalInputs == {-5, 0, 30}

NextInterval ==
  \/ \E c \in Chats : handle_url(c, HttpsUrl)
  \/ handle_url_resume(TRUE)
  \/ \E c \in Chats, p \in Pids, m \in IntervalInputs : set_interval(c, p, m)
  \/ \E c \in Chats, n \in 0..MaxProjects, m \in IntervalInputs :
       interval_command(c, n, m)
  \/ HandlerReturn
  \/ \E r \in Runners : find_rss_feed(r, None)
  \/ \E r \in Runners, content \in PageResults : check_page_changes(r, content)
  \/ \E r \in Runners : send_message(r, TRUE)
  \/ \E t \in Tasks : monitoring_loop(t)
  \/ Tick

SpecInterval == Init /\ [][NextInterval]_vars

\* Two owners and room for one more project and one more task: operations
\* and cycles of one project next to those of another.
PairChats == {1, 2}
PairPids == 1..(MaxProjects + 1)
PairResults == {Some(x) : x \in Contents}

InitPair == InitWith(MaxTasks + 1, MaxProjects + 1, Unscripted)

NextPair ==
  \/ \E c \in PairChats : handle_url(c, HttpsUrl)
  \/ handle_url_resume(TRUE)
  \/ \E c \in PairChats, p \in PairPids : toggle_project(c, p, TRUE)
  \/ \E c \in PairChats, p \in PairPids : delete_project(c, p)
  \/ \E c \in PairChats, p \in PairPids : set_interval(c, p, 30)
  \/ \E c \in PairChats, p \in PairPids : toggle_notifications(c, p)
  \/ HandlerReturn
  \/ \E r \in Runners : find_rss_feed(r, None)
  \/ \E r \in Runners, content \in PairResults : check_page_changes(r, content)
  \/ \E r \in Runners : send_message(r, TRUE)
  \/ \E t \in Tasks : monitoring_loop(t)
  \/ \E t \in Tasks : CancelledError(t, FALSE)

SpecPair == InitPair /\ [][NextPair]_vars

\* Two projects of two owners whose notifications may fail to be sent, with
\* the clock running: a loop in its 60-second wait next to another loop.
NextBackoff ==
  \/ \E c \in PairChats : handle_url(c, HttpsUrl)
  \/ handle_url_resume(TRUE)
  \/ \E c \in PairChats, p \in PairPids : toggle_project(c, p, TRUE)
  \/ HandlerReturn
  \/ \E r \in Runners : find_rss_feed(r, None)
  \/ \E r \in Runners, content \in PairResults : check_page_changes(r, content)
  \/ \E r \in Runners, ok \in BOOLEAN : send_message(r, ok)
  \/ \E t \in Tasks : monitoring_loop(t)
  \/ \E t \in Tasks : CancelledError(t, FALSE)
  \/ Tick

SpecBackoff == InitPair /\ [][NextBackoff]_vars

\* One owner with two projects, deleting and re-adding by number while the
\* loops run and a cancelled loop may outlive its cancellation.
NextListing ==
  \/ handle_url(1, HttpsUrl)
  \/ handle_url_resume(TRUE)
  \/ \E p \in PairPids : delete_project(1, p)
  \/ \E n \in PairPids : delete_command(1, n)
  \/ \E n \in PairPids : interval_command(1, n, 30)
  \/ HandlerReturn
  \/ \E r \in Runners : find_rss_feed(r, None)
  \/ \E r \in Runners : check_page_changes(r, Some("X"))
  \/ \E r \in Runners : send_message(r, TRUE)
  \/ \E t \in Tasks : monitoring_loop(t)
  \/ \E t \in Tasks, in_html \in BOOLEAN : CancelledError(t, in_html)

SpecListing == InitPair /\ [][NextListing]_vars

\* The feed scenario: one owner adds a project whose site has a feed, every
\* send succeeds, and feed and page return the scripted contents.
InitFeed == InitWith(MaxTasks, MaxProjects, ScriptedFeed)

NextFeed ==
  \/ \E c \in Chats : handle_url(c, HttpsUrl)
  \/ handle_url_resume(TRUE)
  \/ HandlerReturn
  \/ \E r \in Runners : find_rss_feed(r, Some(FeedUrl))
  \/ \E r \in Runners, f \in Range(ScriptedFeed.feeds) :
       fetch_rss_content(r, f)
  \/ \E r \in Runners, content \in PageResults : check_page_changes(r, content)
  \/ \E r \in Runners : send_message(r, TRUE)
  \/ \E t \in Tasks : monitoring_loop(t)
  \/ Tick

SpecFeed == InitFeed /\ [][NextFeed]_vars

InCycle(rec) == rec.pc \in {"find", "fetch_rss", "fetch_page", "send"}
Live(t) == run[t].pc # "none"
Registered(c, p) ==
  /\ <<c, p>> \in DOMAIN monitoring_tasks
  /\ Live(monitoring_tasks[<<c, p>>])

\* Sanity: a registered task is alive and runs the loop of its key.
RegistryOK ==
  \A k \in DOMAIN monitoring_tasks :
    LET t == monitoring_tasks[k] IN
      Live(t) /\ run[t].chat = k[1] /\ run[t].pid = k[2]


\* C1: once toggle_project has deactivated a project and returned, no step
\* other than a management handler changes any field of the project's
\* record, and no notification is sent for it, while it stays inactive.
C1_PausedProjectUntouched ==
  [][\A p \in DOMAIN objects :
       (~objects[p].is_active /\ HandlerIdle /\ run'[Handler].pc = "idle")
         => (objects'[p] = objects[p] /\ outbox'.pid # p)]_vars

\* C2: once a delete handler has removed (owner, id), that key is never in
\* user_projects again and no notification is sent for it.
C2_DeletedNeverReappears ==
  [][\A k \in deleted :
       HandlerIdle =>
         /\ k[2] \notin Range(user_projects'[k[1]])
         /\ outbox'.pid # k[2]]_vars

C4_ActiveHasRegisteredLoop ==
  HandlerIdle =>
    \A c \in DOMAIN user_projects :
      \A p \in Range(user_projects[c]) :
        objects[p].is_active => Registered(c, p)

\* C5: once a project has been deactivated or deleted and the handler has
\* returned, no task is registered for it, and no loop starts a cycle for it
\* while it is inactive or deleted by its owner.
C5_NoCycleAfterStop ==
  /\ [](HandlerIdle =>
          \A k \in DOMAIN monitoring_tasks :
            k \notin deleted /\ objects[k[2]].is_active)
  /\ [][\A t \in Tasks :
          (HandlerIdle /\ ~InCycle(run[t]) /\ InCycle(run'[t]))
            => /\ <<run'[t].chat, run'[t].pid>> \notin deleted
               /\ objects[run'[t].pid].is_active]_vars

\* C6: within one loop, a cycle starts only from the task's first step or
\* from a sleep whose wake time has passed; the interval sleep is entered
\* only from a finished cycle and lasts interval_seconds from that moment,
\* so a long cycle is followed by a full sleep; a cycle in progress is never
\* restarted.
C6_CyclesSequential ==
  [][\A t \in Tasks :
       /\ (~InCycle(run[t]) /\ InCycle(run'[t]))
            => \/ run[t].pc = "new"
               \/ run[t].pc \in {"sleep", "backoff"} /\ now >= run[t].wake
       /\ (run[t].pc # "sleep" /\ run'[t].pc = "sleep")
            => /\ InCycle(run[t])
               /\ run'[t].wake = now + run[t].interval_seconds
       /\ (InCycle(run[t]) /\ InCycle(run'[t]))
            => run'[t].current_time = run[t].current_time]_vars

\* A loop is in a cycle that it started after a sleep had elapsed.
C6_Witness ==
  \E t \in Tasks :
    InCycle(run[t]) /\ run[t].wake > 0 /\ run[t].current_time >= run[t].wake

\* C7: a successful retrieval on a project whose last_hash and
\* last_rss_items are both None sends FirstObservation and stores the
\* digest of the fetched content, whatever the content.
C7_FirstCycleIsFirstObservation ==
  [][\A r \in Runners, content \in PageResults :
       (/\ check_page_changes(r, content)
        /\ content # None
        /\ objects[run[r].pid].last_hash = None
        /\ objects[run[r].pid].last_rss_items = None)
         => /\ outbox'.kind = "FirstObservation"
            /\ outbox'.pid = run[r].pid
            /\ objects'[run[r].pid].last_hash =
                 Some(calculate_hash(content[1]))]_vars

\* A first observation has just been reported and its digest stored.
C7_Witness ==
  /\ outbox.kind = "FirstObservation"
  /\ objects[outbox.pid].last_hash # None

\* C8: with stored digest D, fetching content of digest D sends no change
\* event and leaves D; fetching content of another digest D2 sends
\* ContentChanged and stores D2.
C8_ChangedIffDigestDiffers ==
  [][\A r \in Runners, content \in PageResults :
       (/\ check_page_changes(r, content)
        /\ content # None
        /\ objects[run[r].pid].last_hash # None)
         => LET p == run[r].pid
                D == objects[p].last_hash
                D2 == Some(calculate_hash(content[1]))
            IN IF D2 = D
               THEN /\ objects'[p].last_hash = D
                    /\ outbox'.kind \in {"none", "UnchangedNotice"}
               ELSE /\ objects'[p].last_hash = D2
                    /\ outbox'.kind = "ContentChanged"
                    /\ outbox'.pid = p]_vars

\* A change has just been reported and the new digest stored.
C8_Witness ==
  /\ outbox.kind = "ContentChanged"
  /\ objects[outbox.pid].last_hash \in
       {Some(calculate_hash(x)) : x \in Contents}

\* C9: with retrievals X, X, Y the events sent for the project are
\* FirstObservation after the first, nothing after the second, and
\* ContentChanged after the third.
C9_EndToEnd ==
  scenario.on =>
    scenario.events =
      CASE Len(scenario.script) = 3 -> << >>
        [] Len(scenario.script) \in {1, 2} -> <<"FirstObservation">>
        [] Len(scenario.script) = 0 ->
             <<"FirstObservation", "ContentChanged">>

\* All three scripted retrievals have returned.
C9_Witness ==
  /\ scenario.on
  /\ scenario.script = << >>
  /\ Len(scenario.events) = 2

\* C10: the 'no change' notices of a project come from cycles whose
\* timestamps are at least 3600 s apart; and an unchanged cycle whose
\* timestamp is at least 3600 s after every earlier notice sends one when
\* notify_on_no_changes is on.
C10_NoChangeThrottle ==
  /\ [](\A p \in DOMAIN no_change_notices :
          \A i, j \in DOMAIN no_change_notices[p] :
            i < j => no_change_notices[p][j] - no_change_notices[p][i]
                       >= NoChangeFloorSeconds)
  /\ [][\A r \in Runners, content \in PageResults :
          LET p == run[r].pid IN
          (/\ check_page_changes(r, content)
           /\ Outcome(objects[p], content) = "unchanged"
           /\ objects[p].notify_on_no_changes
           /\ no_change_notices[p] # << >>
           /\ \A i \in DOMAIN no_change_notices[p] :
                run[r].current_time - no_change_notices[p][i]
                  >= NoChangeFloorSeconds)
            => /\ outbox'.kind = "UnchangedNotice"
               /\ outbox'.pid = p]_vars

\* A second 'no change' notice has been sent for a project.
C10_Witness ==
  \E p \in DOMAIN no_change_notices : Len(no_change_notices[p]) >= 2

\* C11: a cycle with outcome unchanged sends the 'no change' notice exactly
\* when notify_on_no_changes is on and last_notification is empty or at
\* least 3600 s before the cycle's timestamp; when it sends, last_notification
\* becomes the cycle's timestamp; otherwise nothing is sent and
\* last_notification keeps its value.
C11_UnchangedNoticeIff ==
  [][\A r \in Runners, content \in PageResults :
       LET p == run[r].pid
           t == run[r].current_time
       IN (/\ check_page_changes(r, content)
           /\ content # None
           /\ objects[p].last_hash = Some(calculate_hash(content[1])))
            => LET due ==
                     /\ objects[p].notify_on_no_changes
                     /\ \/ objects[p].last_notification = None
                        \/ t - objects[p].last_notification[1] >= 3600
               IN IF due
                  THEN /\ outbox' = Msg("UnchangedNotice", run[r].chat, p, t)
                       /\ objects'[p].last_notification = Some(t)
                  ELSE /\ outbox' = NoMsg
                       /\ objects'[p].last_notification =
                            objects[p].last_notification]_vars

\* A 'no change' notice has just been sent exactly 3600 s after the one
\* before it.
C11_Witness ==
  /\ outbox.kind = "UnchangedNotice"
  /\ objects[outbox.pid].last_notification = Some(outbox.time)
  /\ LET n == no_change_notices[outbox.pid]
     IN Len(n) >= 2 /\ n[Len(n)] - n[Len(n) - 1] = 3600

\* C12: a cycle whose retrieval fails sends FetchFailed, one whose project
\* has no stored digest sends FirstObservation, one whose digest differs
\* from the stored one sends ContentChanged: one message to the owner, at that
\* step only, whatever notify_on_no_changes and last_notification are, and
\* last_notification is left as it was.
C12_EventAlwaysNotified ==
  [][/\ \A r \in Runners, content \in PageResults :
          LET p == run[r].pid
              kind == IF content = None THEN "FetchFailed"
                      ELSE IF objects[p].last_hash = None
                           THEN "FirstObservation"
                           ELSE "ContentChanged"
          IN (/\ check_page_changes(r, content)
              /\ \/ content = None
                 \/ objects[p].last_hash # Some(calculate_hash(content[1])))
               => /\ outbox' = Msg(kind, run[r].chat, p, run[r].current_time)
                  /\ run'[r].pc = "send"
                  /\ objects'[p].last_notification =
                       objects[p].last_notification
     /\ (\A r \in Runners : run[r].pc # "fetch_page")
          => outbox'.kind \notin Notifications]_vars

\* A failed retrieval has just been reported for a project whose 'no change'
\* notices are off and whose last such notice is less than an hour old.
C12_Witness ==
  /\ outbox.kind = "FetchFailed"
  /\ ~objects[outbox.pid].notify_on_no_changes
  /\ objects[outbox.pid].last_notification # None
  /\ outbox.time - objects[outbox.pid].last_notification[1] < 3600

\* C13: a set_interval or /interval step with minutes below 1 leaves every
\* project record, the store, the task registry and every loop as they were.
C13_InvalidIntervalRejected ==
  [][\A c \in Chats, m \in IntervalInputs :
       m < 1 =>
         /\ \A p \in Pids :
              set_interval(c, p, m)
                => UNCHANGED <<objects, user_projects, monitoring_tasks>>
         /\ \A n \in 0..MaxProjects :
              interval_command(c, n, m)
                => UNCHANGED <<objects, user_projects, monitoring_tasks>>]_vars

\* C14: every stored project has interval_minutes >= 1.
C14_IntervalPositive ==
  \A c \in DOMAIN user_projects :
    \A p \in Range(user_projects[c]) : objects[p].interval_minutes >= 1

\* C15: handle_url with a text that, once stripped, starts with neither
\* 'http://' nor 'https://' (lowercase) answers with the invalid-link
\* message and changes nothing: no record, no task, every project and loop
\* as before.
C15_InvalidLocatorRejected ==
  [][\A c \in Chats, message \in Texts :
       (/\ handle_url(c, message)
        /\ ~startswith(strip(message), <<"h","t","t","p",":","/","/">>)
        /\ ~startswith(strip(message), <<"h","t","t","p","s",":","/","/">>))
         => /\ outbox' = Reply("InvalidLocator", c)
            /\ UNCHANGED <<objects, user_projects, monitoring_tasks>>
            /\ \A t \in Tasks : run'[t] = run[t]]_vars

\* An invalid link has just been refused while a project and its loop exist.
C15_Witness ==
  /\ outbox.kind = "InvalidLocator"
  /\ \E c \in DOMAIN user_projects :
       \E p \in Range(user_projects[c]) : Registered(c, p)

\* C16: handle_url with a valid link stores a new record that is active,
\* has interval 60 minutes, 'no change' notices off and last_hash, rss_url,
\* last_rss_items, last_check and last_notification all empty; and when the
\* handler moves on from the creation, exactly one task is registered for the
\* record and it is the only task running for it.
C16_NewProjectDefaults ==
  [][/\ \A c \in Chats, message \in Texts :
          (handle_url(c, message) /\ Len(objects') = Len(objects) + 1)
            => LET p == Len(objects') IN
               /\ p \in Range(user_projects'[c])
               /\ p \notin UNION {Range(user_projects[d]) :
                                    d \in DOMAIN user_projects}
               /\ objects'[p] =
                    [project_id |-> p, url |-> strip(message),
                     last_hash |-> None, last_check |-> None,
                     interval_minutes |-> 60, is_active |-> TRUE,
                     notify_on_no_changes |-> FALSE,
                     last_notification |-> None, rss_url |-> None,
                     last_rss_items |-> None]
     /\ (run[Handler].pc = "url_reply" /\ run'[Handler].pc # "url_reply")
          => LET c == run[Handler].chat
                 p == run[Handler].pid
             IN /\ <<c, p>> \notin DOMAIN monitoring_tasks
                /\ <<c, p>> \in DOMAIN monitoring_tasks'
                /\ {t \in Tasks : /\ run'[t].pc # "none"
                                   /\ run'[t].chat = c
                                   /\ run'[t].pid = p}
                     = {monitoring_tasks'[<<c, p>>]}
                /\ \A k \in DOMAIN monitoring_tasks :
                     monitoring_tasks'[k] = monitoring_tasks[k]]_vars


\* ---------------------------------------------------------------- C17
\* A step that is a management operation on project p (toggle, delete,
\* interval, notifications, the registration that ends addProject) or a step
\* of a cycle or loop of p.
StepOn(p) ==
  \/ \E c \in PairChats :
       \/ toggle_project(c, p, TRUE)
       \/ delete_project(c, p)
       \/ set_interval(c, p, 30)
       \/ toggle_notifications(c, p)
  \/ run[Handler].pid = p /\ handle_url_resume(TRUE)
  \/ \E r \in Runners :
       /\ run[r].pid = p
       /\ \/ find_rss_feed(r, None)
          \/ \E content \in PairResults : check_page_changes(r, content)
          \/ send_message(r, TRUE)
  \/ \E t \in Tasks :
       run[t].pid = p /\ (monitoring_loop(t) \/ CancelledError(t, FALSE))

\* Project q is exactly as it was: its record, the owner it is stored under,
\* its registration, every task and cycle that runs for it, its notices.
Untouched(q) ==
  /\ objects'[q] = objects[q]
  /\ \A c \in PairChats :
       /\ InStore(c, q) <=>
            (c \in DOMAIN user_projects' /\ q \in Range(user_projects'[c]))
       /\ <<c, q>> \in DOMAIN monitoring_tasks <=>
            <<c, q>> \in DOMAIN monitoring_tasks'
       /\ <<c, q>> \in DOMAIN monitoring_tasks =>
            monitoring_tasks'[<<c, q>>] = monitoring_tasks[<<c, q>>]
  /\ \A r \in Runners :
       (run[r].pid = q \/ run'[r].pid = q) => run'[r] = run[r]
  /\ no_change_notices'[q] = no_change_notices[q]

\* C17: a cycle or a management operation on one project leaves every other
\* project's record, store entry, registration and loop unchanged, whether
\* the other project has the same locator, the same owner or another owner;
\* adding a project leaves every existing project unchanged.
C17_OtherProjectsUnchanged ==
  [][/\ \A p \in PairPids :
          StepOn(p) => \A q \in (DOMAIN objects) \ {p} : Untouched(q)
     /\ (\E c \in PairChats : handle_url(c, HttpsUrl)) =>
          \A q \in DOMAIN objects : Untouched(q)]_vars

\* Two projects of one owner with the same locator, each with its own
\* fingerprint and interval, each with its own registered loop.
C17_Witness ==
  /\ Len(objects) = 2
  /\ objects[1].url = objects[2].url
  /\ InStore(1, 1) /\ InStore(1, 2)
  /\ objects[1].last_hash # None /\ objects[2].last_hash # None
  /\ objects[1].last_hash # objects[2].last_hash
  /\ objects[1].interval_minutes = 30 /\ objects[2].interval_minutes = 60
  /\ <<1, 1>> \in DOMAIN monitoring_tasks
  /\ <<1, 2>> \in DOMAIN monitoring_tasks
  /\ monitoring_tasks[<<1, 1>>] # monitoring_tasks[<<1, 2>>]


\* ---------------------------------------------------------------- C18
\* C18: when a cycle of a loop raises (here: sending the notification
\* fails), the loop's task stays alive and registered and waits 60 seconds,
\* counted from the failure; the wait over, with the project still stored
\* and active, it starts a cycle with the project's interval as its cadence;
\* neither step changes another project's record, registration or loop.
C18_BackoffThenResume ==
  [][\A t \in Tasks :
       LET c == run[t].chat
           p == run[t].pid
       IN /\ send_message(t, FALSE) =>
               /\ run'[t].pc = "backoff"
               /\ run'[t].wake = now + 60
               /\ UNCHANGED <<monitoring_tasks, objects, user_projects>>
               /\ \A q \in (DOMAIN objects) \ {p} : Untouched(q)
          /\ (/\ run[t].pc = "backoff"
              /\ ~run[t].cancelled
              /\ run'[t].pc # "backoff") =>
               /\ now >= run[t].wake
               /\ LoopCondition(c, p) =>
                    /\ run'[t].pc \in {"find", "fetch_rss"}
                    /\ run'[t].interval_seconds =
                         objects[p].interval_minutes * 60
                    /\ UNCHANGED <<monitoring_tasks, objects, user_projects>>
               /\ \A q \in (DOMAIN objects) \ {p} : Untouched(q)]_vars

\* A registered loop that failed at time 0, waited and is in a cycle again
\* (its wake time is still the one of the 60-second wait), next to another
\* project whose loop is registered and whose record has its fingerprint.
C18_Witness ==
  \E t \in Tasks :
    /\ run[t].pc = "send"
    /\ run[t].wake = BackoffSeconds
    /\ now > run[t].wake
    /\ <<run[t].chat, run[t].pid>> \in DOMAIN monitoring_tasks
    /\ monitoring_tasks[<<run[t].chat, run[t].pid>>] = t
    /\ \E q \in (DOMAIN objects) \ {run[t].pid} :
         /\ objects[q].last_hash # None
         /\ \E c \in PairChats : <<c, q>> \in DOMAIN monitoring_tasks


\* ---------------------------------------------------------------- C19
\* C19: the step that turns an inactive stored project active creates a
\* task that did not exist and registers it under the project's key; a
\* cycle that finds a fingerprint on the record never reports a first
\* observation, and what it sends goes to the project's owner.
C19_ReactivationStartsLoop ==
  [][/\ \A c \in Chats, p \in Pids :
          (InStore(c, p) /\ ~objects[p].is_active /\ objects'[p].is_active)
          => /\ <<c, p>> \in DOMAIN monitoring_tasks'
             /\ LET t == monitoring_tasks'[<<c, p>>]
                IN run[t].pc = "none" /\ run'[t] = NewTask(c, p)
     /\ \A r \in Runners, content \in PageResults :
          (check_page_changes(r, content)
             /\ objects[run[r].pid].last_hash # None)
          => /\ outbox'.kind # "FirstObservation"
             /\ outbox'.kind \in Notifications => outbox'.chat = run[r].chat
    ]_vars


\* ---------------------------------------------------------------- C20
\* C20: delete, toggle, interval and notifications called by owner c with an
\* id that is not among c's projects (never added, deleted, or another
\* owner's) answer 'project not found' and leave every record, the store,
\* the registry and every task as they were.
C20_NotFoundChangesNothing ==
  [][\A c \in PairChats, p \in PairPids :
       (/\ ~(c \in DOMAIN user_projects /\ p \in Range(user_projects[c]))
        /\ \/ delete_project(c, p)
           \/ toggle_project(c, p, TRUE)
           \/ set_interval(c, p, 30)
           \/ toggle_notifications(c, p))
       => /\ outbox' = Reply("ProjectNotFound", c)
          /\ UNCHANGED <<objects, user_projects, monitoring_tasks, deleted,
                         no_change_notices>>
          /\ \A t \in Tasks : run'[t] = run[t]]_vars

\* Owner 2 has just been told 'project not found' while the project exists,
\* under owner 1, active and with its registered loop in a cycle.
C20_Witness ==
  /\ outbox = Reply("ProjectNotFound", 2)
  /\ \E p \in DOMAIN objects :
       /\ InStore(1, p) /\ ~InStore(2, p)
       /\ objects[p].is_active
       /\ <<1, p>> \in DOMAIN monitoring_tasks
       /\ InCycle(run[monitoring_tasks[<<1, p>>]])


\* ---------------------------------------------------------------- C21
\* list(user_projects[chat_id].items()): the owner's projects as
\* show_projects_menu, /delete and /interval enumerate them.
projects_list(c) ==
  IF c \in DOMAIN user_projects THEN user_projects[c] ELSE << >>

\* Project ids are handed out in the order of creation.
InCreationOrder(s) == \A i, j \in 1..Len(s) : i < j => s[i] < s[j]

\* C21: after every step the owner's listing is in creation order, and
\* /delete n and /interval n act on the n-th listed project and on no other.
C21_ListedInCreationOrder ==
  [][/\ \A c \in PairChats : InCreationOrder(projects_list(c))'
     /\ \A n \in PairPids :
          (delete_command(1, n) /\ n <= Len(projects_list(1))) =>
             user_projects'[1] =
               SelectSeq(user_projects[1], LAMBDA q : q # projects_list(1)[n])
     /\ \A n \in PairPids :
          (interval_command(1, n, 30) /\ n <= Len(projects_list(1))) =>
             objects' = [objects EXCEPT
                           ![projects_list(1)[n]].interval_minutes = 30]
    ]_vars


\* ---------------------------------------------------------------- C22
\* C22: an exception raised in a cycle never ends a management handler: a
\* handler that is inside a cycle leaves it only towards its own reply, and
\* an exception in a loop's cycle leaves the handler where it is.
C22_CycleErrorsStayInternal ==
  [][/\ ~(InCycle(run[Handler]) /\ run'[Handler].pc = "idle")
     /\ \A t \in Tasks :
          send_message(t, FALSE) => run'[Handler] = run[Handler]]_vars


\* ---------------------------------------------------------------- C23
\* C23: a cycle whose feed was served with entries leaves the ids of a fetch
\* on the record as the feed identity; when an identity was already stored,
\* the items it reports (the message it sends and those it queues) are
\* exactly the served ids that are not in the stored identity, in whatever
\* order they were served, and after a report the identity is the list of
\* the served ids.
C23_NewItemsExactly ==
  [][\A r \in Runners, served \in ServedFeeds :
       (fetch_rss_content(r, served) /\ served # None /\ served[1] # << >>)
       => LET p == run[r].pid
              stored == objects[p].last_rss_items
              items == served[1]
              fresh == {id \in Range(items) :
                          stored # None /\ id \notin Range(stored[1])}
              reported ==
                (IF outbox'.kind = "FeedNewItem" THEN {outbox'.item} ELSE {})
                  \cup Range(run'[r].new_items)
          IN /\ objects'[p].last_rss_items # None
             /\ stored # None =>
                  /\ reported = fresh
                  /\ fresh # {} => objects'[p].last_rss_items = Some(items)
    ]_vars


\* ---------------------------------------------------------------- C24
\* C24 as stated: when the project has a feed locator and fetching that feed
\* fails, the cycle's outcome is fetch-failed: the failure message is sent,
\* the raw page is not fetched, and the fingerprint is left alone.
C24_NoFallbackAfterFeedFailure ==
  [][\A r \in Runners, served \in ServedFeeds :
       (fetch_rss_content(r, served) /\ rss_data(served) = None)
       => /\ outbox' = Msg("FetchFailed", run[r].chat, run[r].pid,
                           run[r].current_time)
          /\ run'[r].pc # "fetch_page"]_vars

\* C24, amended: when the project has a feed locator and fetching that feed
\* fails, the cycle sends nothing and changes nothing at that point and goes
\* on to fetch the raw page; the raw content it then retrieves is compared
\* with the stored fingerprint and becomes the new fingerprint, as in a
\* cycle of a project without a feed locator.
C24_FeedFailureFallsBack ==
  [][/\ \A r \in Runners, served \in ServedFeeds :
          (fetch_rss_content(r, served) /\ rss_data(served) = None)
          => /\ run'[r].pc = "fetch_page"
             /\ outbox' = NoMsg
             /\ UNCHANGED <<objects, user_projects>>
     /\ \A r \in Runners, content \in PageResults :
          (/\ check_page_changes(r, content)
           /\ Truthy(objects[run[r].pid].rss_url))
          => LET p == run[r].pid
                 out == Outcome(objects[p], content)
             IN /\ out # "fetch-failed" =>
                     objects'[p].last_hash = Some(calculate_hash(content[1]))
                /\ out = "fetch-failed" =>
                     /\ objects'[p].last_hash = objects[p].last_hash
                     /\ outbox'.kind = "FetchFailed"
                /\ out = "changed" => outbox'.kind = "ContentChanged"
                /\ out = "first-observation" =>
                     outbox'.kind = "FirstObservation"]_vars

\* A project with a feed locator whose fingerprint was set from raw content
\* and whose cycle, the feed having failed again, is fetching the raw page.
C24_Witness ==
  \E t \in Tasks :
    /\ run[t].pc = "fetch_page"
    /\ Truthy(objects[run[t].pid].rss_url)
    /\ objects[run[t].pid].last_hash # None


\* ---------------------------------------------------------------- C25
IsPrefix(s, t) == Len(s) <= Len(t) /\ s = SubSeq(t, 1, Len(s))

\* What the owner is to receive in the feed scenario: the start of the feed
\* tracking, then the two new items, the older one first.
FeedScenarioEvents == <<"FeedStarted", "a2", "a3">>

\* C25: in the feed scenario the second feed cycle finds two new items and
\* sends exactly two messages, a2 before a3 (the reverse of the feed's
\* order); nothing else is sent, and from the first of the two messages on
\* the record holds the ids of the second fetch.
C25_FeedItemsOldestFirst ==
  scenario.on =>
    /\ IsPrefix(scenario.events, FeedScenarioEvents)
    /\ (scenario.feeds = << >> /\ \A r \in Runners : ~InCycle(run[r]))
         => scenario.events = FeedScenarioEvents
    /\ outbox.kind = "FeedNewItem" =>
         objects[1].last_rss_items = Some(<<"a3", "a2", "a1">>)


\* ---------------------------------------------------------------- C26
\* The step in which runner r's cycle returns to its caller (the loop goes
\* to sleep, handle_url to its menu).
CycleEnds(r) == InCycle(run[r]) /\ run'[r].pc \in {"sleep", "reply"}

\* C26: when a cycle runs to its end, the project's last_check is the start
\* time of that cycle.
C26_LastCheckIsCycleStart ==
  [][\A r \in Runners :
       CycleEnds(r) =>
         objects'[run[r].pid].last_check = isoformat(run[r].current_time)
    ]_vars


\* ---------------------------------------------------------------- C27
\* C27: a project's last_notification changes only in the step of a cycle
\* whose outcome is 'unchanged' and which issues the 'no change' message,
\* and a cycle whose message could not be sent has not left its own time in
\* last_notification.
C27_LastNotificationOnlyWhenSent ==
  [][/\ \A p \in DOMAIN objects :
          objects'[p].last_notification # objects[p].last_notification
          => \E r \in Runners, content \in PageResults :
               /\ run[r].pid = p
               /\ check_page_changes(r, content)
               /\ Outcome(objects[p], content) = "unchanged"
               /\ outbox'.kind = "UnchangedNotice"
     /\ \A r \in Runners :
          send_message(r, FALSE) =>
            objects[run[r].pid].last_notification #
              isoformat(run[r].current_time)]_vars


\* ---------------------------------------------------------------- C28
\* C28: a new record has no fingerprint; a fingerprint appears only in the
\* step in which a raw retrieval of the project succeeds, and it is the
\* digest of the retrieved content; every successful raw retrieval leaves a
\* fingerprint; and no step of any cycle or handler takes a fingerprint
\* away.
C28_FingerprintNoneUntilSuccess ==
  [][/\ \A p \in (DOMAIN objects') \ (DOMAIN objects) :
          objects'[p].last_hash = None
     /\ \A p \in DOMAIN objects :
          /\ objects[p].last_hash # None => objects'[p].last_hash # None
          /\ (objects[p].last_hash = None /\ objects'[p].last_hash # None)
             => \E r \in Runners, content \in PageResults :
                  /\ run[r].pid = p
                  /\ content # None
                  /\ check_page_changes(r, content)
                  /\ objects'[p].last_hash = Some(calculate_hash(content[1]))
     /\ \A r \in Runners, content \in PageResults :
          (check_page_changes(r, content) /\ content # None)
          => objects'[run[r].pid].last_hash # None]_vars

\* A project that was checked without success and still has no fingerprint,
\* after its owner changed its interval and paused it.
C28_Witness ==
  \E p \in DOMAIN objects :
    /\ objects[p].last_hash = None
    /\ objects[p].last_check # None
    /\ objects[p].interval_minutes = 30
    /\ ~objects[p].is_active


\* ---------------------------------------------------------------- C29
\* C29: a feed locator, once on the record, is never cleared or replaced; a
\* cycle enters the feed discovery only when the record has no locator; and
\* the step in which the discovery returns a locator writes it to the record
\* and only then goes on to fetch the feed.
C29_FeedLocatorStable ==
  [][/\ \A p \in DOMAIN objects :
          objects[p].rss_url # None => objects'[p].rss_url = objects[p].rss_url
     /\ \A r \in Runners :
          (run[r].pc # "find" /\ run'[r].pc = "find")
          => objects[run'[r].pid].rss_url = None
     /\ \A r \in Runners, u \in ProbeResults :
          (find_rss_feed(r, u) /\ Truthy(u))
          => /\ objects'[run[r].pid].rss_url = u
             /\ run'[r].pc = "fetch_rss"]_vars


\* ---------------------------------------------------------------- C30
\* C30: the step of a cycle in which the raw fetch of the page fails leaves
\* the project's record as it was, but for last_check, which becomes the
\* cycle's start time: last_hash, last_rss_items, last_notification,
\* interval_minutes, is_active and notify_on_no_changes keep their values.
\* The steps of the cycle that lead to the raw fetch, and the sending of the
\* failure message after it, change none of these six fields either.
Baseline(project) ==
  <<project.last_hash, project.last_rss_items, project.last_notification,
    project.interval_minutes, project.is_active,
    project.notify_on_no_changes>>

C30_FetchFailedKeepsBaseline ==
  [][\A r \in Runners :
       LET p == run[r].pid IN
         /\ (check_page_changes(r, None))
            => /\ Outcome(objects[p], None) = "fetch-failed"
               /\ outbox'.kind = "FetchFailed"
               /\ Baseline(objects'[p]) = Baseline(objects[p])
               /\ objects'[p] =
                    [objects[p] EXCEPT
                       !.last_check = isoformat(run[r].current_time)]
         /\ (run[r].pc \in {"find", "fetch_rss"} /\ run'[r].pc = "fetch_page")
            => Baseline(objects'[p]) = Baseline(objects[p])
         /\ (run[r].pc = "send" /\ outbox.kind = "FetchFailed"
             /\ run'[r].pc # "send")
            => objects' = objects]_vars

\* The failure message of a cycle is on its way for a project that has a
\* fingerprint and a no-change notice behind it, and the record carries the
\* start time of the failed cycle.
C30_Witness ==
  /\ outbox.kind = "FetchFailed"
  /\ \E p \in DOMAIN objects :
       /\ p = outbox.pid
       /\ objects[p].last_hash # None
       /\ objects[p].last_notification # None
       /\ objects[p].last_check = isoformat(outbox.time)


\* ---------------------------------------------------------------- C31
\* The return of a sleep whose wake time lies beyond the last instant the
\* clock counts: the loop goes on as in monitoring_loop, the clock standing
\* at its last instant.
monitoring_loop_late(t) ==
  /\ run[t].pc \in {"sleep", "backoff"}
  /\ now = MaxTime /\ run[t].wake > MaxTime
  /\ ~run[t].cancelled
  /\ LET c == run[t].chat
         p == run[t].pid
     IN IF LoopCondition(c, p)
        THEN /\ run' = [run EXCEPT ![t] =
                  BeginCycle([@ EXCEPT !.interval_seconds =
                                 IntervalSeconds(objects[p])], p)]
             /\ UNCHANGED monitoring_tasks
        ELSE /\ run' = [run EXCEPT ![t] = NoTask]
             /\ monitoring_tasks' = Unregister(monitoring_tasks, <<c, p>>)
  /\ outbox' = NoMsg
  /\ UNCHANGED <<user_projects, objects, now, deleted, no_change_notices,
                 limits, scenario>>

\* Every step a task can take on its own: the event loop runs a task whose
\* await has completed, whose timer is due or whose cancellation is pending.
TaskStep(t) ==
  \/ find_rss_feed(t, None)
  \/ \E content \in PageResults : check_page_changes(t, content)
  \/ \E ok \in BOOLEAN : send_message(t, ok)
  \/ monitoring_loop(t)
  \/ monitoring_loop_late(t)
  \/ \E in_html \in BOOLEAN : CancelledError(t, in_html)

\* One owner adds, pauses, resumes and deletes a project while its loop
\* runs; retrievals and sends may fail; time passes.
NextCancel ==
  \/ \E c \in Chats : handle_url(c, HttpsUrl)
  \/ handle_url_resume(TRUE)
  \/ \E c \in Chats, p \in Pids : toggle_project(c, p, TRUE)
  \/ \E c \in Chats, p \in Pids : delete_project(c, p)
  \/ HandlerReturn
  \/ find_rss_feed(Handler, None)
  \/ \E content \in PageResults : check_page_changes(Handler, content)
  \/ \E ok \in BOOLEAN : send_message(Handler, ok)
  \/ \E t \in Tasks : TaskStep(t)
  \/ Tick

\* The event loop is fair to every task and the clock does not stop.
SpecCancel ==
  /\ Init
  /\ [][NextCancel]_vars
  /\ \A t \in Tasks : WF_vars(TaskStep(t))
  /\ WF_vars(Tick)

\* C31: a loop whose cancellation arrives while it sleeps (the interval or
\* the 60 seconds after an error) ends at that step without beginning
\* another cycle; and every loop that has been cancelled eventually ends.
C31_CancelledLoopTerminates ==
  /\ [][\A t \in Tasks :
          (run[t].cancelled /\ run[t].pc \in {"sleep", "backoff"}
           /\ run'[t] # run[t])
          => run'[t].pc = "none"]_vars
  /\ \A t \in Tasks : run[t].cancelled ~> run[t].pc = "none"


\* ---------------------------------------------------------------- C32
\* C32: an iteration of the loop reads the record stored under its key when
\* it begins: the interval it takes is the stored one at that moment and is
\* the length of the sleep that follows the cycle; and the 'no change'
\* notice of a cycle is decided with the notify_on_no_changes the record has
\* when the decision is made.
C32_IterationReadsStoredRecord ==
  [][\A t \in Tasks :
       LET p == run[t].pid IN
         /\ (monitoring_loop(t) /\ InCycle(run'[t]))
            => run'[t].interval_seconds = objects[p].interval_minutes * 60
         /\ (InCycle(run[t]) /\ run'[t].pc = "sleep")
            => run'[t].wake = now + run[t].interval_seconds
         /\ \A x \in Contents :
              (check_page_changes(t, Some(x))
               /\ Outcome(objects[p], Some(x)) = "unchanged")
              => /\ outbox'.kind = "UnchangedNotice"
                    => objects[p].notify_on_no_changes
                 /\ (objects[p].notify_on_no_changes
                     /\ objects[p].last_notification = None)
                    => outbox'.kind = "UnchangedNotice"]_vars

\* A cycle of the loop decides to send the 'no change' notice and will sleep
\* 30 minutes: both settings were changed by the owner after the project
\* was added.
C32_Witness ==
  \E t \in Tasks :
    /\ run[t].pc = "send"
    /\ outbox.kind = "UnchangedNotice" /\ outbox.pid = run[t].pid
    /\ run[t].interval_seconds = 30 * 60
    /\ objects[run[t].pid].interval_minutes = 30


\* ---------------------------------------------------------------- C33
\* C33: for any project at most one execution of check_page_changes is in
\* progress at any time, whoever began it: a loop's iteration or the
\* immediate first check of handle_url.
C33_OneCycleAtATime ==
  \A r, q \in Runners :
    (r # q /\ InCycle(run[r]) /\ InCycle(run[q]))
      => run[r].pid # run[q].pid


\* ---------------------------------------------------------------- C34
\* The two messages that announce a first observation: the one of the raw
\* check (lines 682-691) and the one of the feed branch (lines 569-580).
FirstObservations == {"FirstObservation", "FeedStarted"}

\* C34: at most one first-observation notification is ever sent for a
\* project.  A step that sends one finds the project without a fingerprint
\* and leaves it with one, and a fingerprint, once stored, is never removed:
\* no later step can send a second one, however the immediate check of
\* handle_url, the loop's cycles and the toggles interleave.
C34_OneFirstObservation ==
  [][\A p \in DOMAIN objects :
       /\ (outbox'.kind \in FirstObservations /\ outbox'.pid = p)
          => /\ objects[p].last_hash = None
             /\ objects'[p].last_hash # None
       /\ objects[p].last_hash # None => objects'[p].last_hash # None]_vars

\* The first observation has just been announced by one cycle while another
\* cycle of the same project is still waiting for the page.
C34_Witness ==
  /\ outbox.kind = "FirstObservation"
  /\ \E r, q \in Runners :
       /\ r # q
       /\ run[r].pc = "send" /\ run[r].pid = outbox.pid
       /\ run[q].pc = "fetch_page" /\ run[q].pid = outbox.pid


\* ---------------------------------------------------------------- C35
\* C35: the step in which a loop ends removes from monitoring_tasks no
\* entry that holds another task; and every live loop of a stored, active
\* project is the task registered under the project's key, so that a later
\* deactivation or deletion cancels it.
C35_OnlyOwnRegistrationRemoved ==
  /\ [][\A t \in Tasks :
          (run[t].pc # "none" /\ run'[t].pc = "none")
          => \A k \in DOMAIN monitoring_tasks :
               monitoring_tasks[k] # t
               => (k \in DOMAIN monitoring_tasks'
                   /\ monitoring_tasks'[k] = monitoring_tasks[k])]_vars
  /\ [](\A t \in Tasks :
          (Live(t) /\ ~run[t].cancelled
           /\ LoopCondition(run[t].chat, run[t].pid))
          => /\ <<run[t].chat, run[t].pid>> \in DOMAIN monitoring_tasks
             /\ monitoring_tasks[<<run[t].chat, run[t].pid>>] = t)


\* ---------------------------------------------------------------- C37
\* The message of the last step is the one runner r is about to send: r is
\* the only runner of that project waiting in send_message.
Sending(r) ==
  /\ run[r].pc = "send"
  /\ outbox.pid = run[r].pid /\ outbox.time = run[r].current_time
  /\ \A q \in Runners \ {r} :
       ~(run[q].pc = "send" /\ run[q].pid = run[r].pid)

\* C37: a step that replaces a stored fingerprint by a different one issues
\* the 'content changed' message for the project, and that message does not
\* fail to be sent: its send does not raise and its sender is not cancelled
\* while it waits, so that no changed baseline is stored with the change
\* unreported.
C37_ChangeAlwaysReported ==
  [][/\ \A p \in DOMAIN objects :
          (objects[p].last_hash # None
           /\ objects'[p].last_hash # objects[p].last_hash)
          => (outbox'.kind = "ContentChanged" /\ outbox'.pid = p)
     /\ \A r \in Runners :
          (outbox.kind = "ContentChanged" /\ Sending(r))
          => /\ ~send_message(r, FALSE)
             /\ \A in_html \in BOOLEAN :
                  r \in Tasks => ~CancelledError(r, in_html)]_vars

====
